---- MODULE Spec2Model ----
(***************************************************************************)
(* Model of the git protocol of dpp.vim (denops/@dpp-protocols/git).       *)
(*                                                                         *)
(* Strings are TLA+ strings; they are taken apart character by character   *)
(* with Len and SubSeq, so the regular expressions of the source are       *)
(* modelled by what they match, group by group.  Identifiers contain no    *)
(* line terminators (the only characters `.` does not match).              *)
(***************************************************************************)
EXTENDS Integers, Sequences, FiniteSets, TLC

VARIABLES
  plugin,   \* args.plugin of the current call: repo, path, rev, local, gitRemote
  params,   \* args.protocolParams of the current call
  dirs,     \* the paths that are directories on disk
  op,       \* the operation that returned last ("none" before the first call)
  ret,      \* the value that operation returned
  loc,      \* the locals of getGitUrl when it returned
  fx,       \* what the last call did: paths probed, subprocesses spawned,
            \* messages sent to dpp#util#_error
  env,      \* what the environment answers a call: the output of each
            \* subprocess and the files of the .git directory
  call      \* the arguments of the call besides plugin and protocolParams

vars == <<plugin, params, dirs, op, ret, loc, fx, env, call>>

(***************************************************************************)
(* Bounds of the model.                                                    *)
(***************************************************************************)
MaxLen == 3      \* every identifier over IdentifierAlphabet up to this length
MaxDepth == 2    \* cloneDepth ranges over -1 .. MaxDepth

(***************************************************************************)
(* String helpers (String.prototype.startsWith, endsWith, indexOf, ...).    *)
(***************************************************************************)
CharAt(s, i) == SubSeq(s, i, i)

StartsWith(s, p) == Len(s) >= Len(p) /\ SubSeq(s, 1, Len(p)) = p

EndsWith(s, p) == Len(s) >= Len(p) /\ SubSeq(s, Len(s) - Len(p) + 1, Len(s)) = p

\* the substring of s from position i to its end ("" when i is past the end)
From(s, i) == IF i > Len(s) THEN "" ELSE SubSeq(s, i, Len(s))

\* the first position >= i where s has the substring p, 0 when there is none
RECURSIVE IndexFrom(_, _, _)
IndexFrom(s, p, i) ==
  IF i + Len(p) - 1 > Len(s) THEN 0
  ELSE IF SubSeq(s, i, i + Len(p) - 1) = p THEN i
  ELSE IndexFrom(s, p, i + 1)

Includes(s, p) == IndexFrom(s, p, 1) > 0

\* the number of characters "/" that s has from position i on
RECURSIVE SlashRun(_, _)
SlashRun(s, i) ==
  IF i <= Len(s) /\ CharAt(s, i) = "/" THEN 1 + SlashRun(s, i + 1) ELSE 0

(***************************************************************************)
(* getGitUrl: the three grammars.  A match is a record; ok = FALSE stands  *)
(* for a null match.                                                       *)
(***************************************************************************)
NoMatch == [ok |-> FALSE, protocol |-> "", host |-> "", user |-> "", name |-> ""]

\* /^git@(?<host>[^:]+):(?<user>[^\/]+)\/(?<name>.+)/
sshMatch(repo) ==
  LET i == IndexFrom(repo, ":", 5)
      j == IF i = 0 THEN 0 ELSE IndexFrom(repo, "/", i + 1)
  IN  IF StartsWith(repo, "git@") /\ i > 5 /\ j > i + 1 /\ Len(repo) > j
      THEN [ok |-> TRUE, protocol |-> "",
            host |-> SubSeq(repo, 5, i - 1),
            user |-> SubSeq(repo, i + 1, j - 1),
            name |-> From(repo, j + 1)]
      ELSE NoMatch

\* /^(?<protocol>[^:]+):\/\/(?<host>[^\/]+)\/(?<user>[^\/]+)\/(?<name>.+)/
protocolMatch(repo) ==
  LET i == IndexFrom(repo, ":", 1)
      j == IF i = 0 THEN 0 ELSE IndexFrom(repo, "/", i + 3)
      k == IF j = 0 THEN 0 ELSE IndexFrom(repo, "/", j + 1)
  IN  IF /\ i > 1
         /\ Len(repo) >= i + 2
         /\ SubSeq(repo, i + 1, i + 2) = "//"
         /\ j > i + 3
         /\ k > j + 1
         /\ Len(repo) > k
      THEN [ok |-> TRUE,
            protocol |-> SubSeq(repo, 1, i - 1),
            host |-> SubSeq(repo, i + 3, j - 1),
            user |-> SubSeq(repo, j + 1, k - 1),
            name |-> From(repo, k + 1)]
      ELSE NoMatch

\* /^((?<host>[^\/]+)\/)?(?<user>[^\/]+)\/(?<name>.+)/
\* The optional group is tried first; host = "" stands for an undefined group.
hostMatch(repo) ==
  LET j == IndexFrom(repo, "/", 1)
      k == IF j = 0 THEN 0 ELSE IndexFrom(repo, "/", j + 1)
  IN  IF j > 1 /\ k > j + 1 /\ Len(repo) > k
      THEN [ok |-> TRUE, protocol |-> "",
            host |-> SubSeq(repo, 1, j - 1),
            user |-> SubSeq(repo, j + 1, k - 1),
            name |-> From(repo, k + 1)]
      ELSE IF j > 1 /\ Len(repo) > j
      THEN [ok |-> TRUE, protocol |-> "", host |-> "",
            user |-> SubSeq(repo, 1, j - 1),
            name |-> From(repo, j + 1)]
      ELSE NoMatch

\* variant: the bare shorthand is tried before the other two grammars
ParseRepo_mutantHostFirst(repo, defaultHubSite, defaultProtocol) ==
  LET s == sshMatch(repo)
      p == protocolMatch(repo)
      h == hostMatch(repo)
  IN  IF h.ok
      THEN [grammar |-> "host", protocol |-> defaultProtocol,
            host |-> IF h.host # "" THEN h.host ELSE defaultHubSite,
            user |-> h.user, name |-> h.name]
      ELSE IF s.ok
      THEN [grammar |-> "ssh", protocol |-> "ssh", host |-> s.host,
            user |-> s.user, name |-> s.name]
      ELSE IF p.ok
      THEN [grammar |-> "protocol", protocol |-> p.protocol, host |-> p.host,
            user |-> p.user, name |-> p.name]
      ELSE [grammar |-> "none", protocol |-> defaultProtocol,
            host |-> defaultHubSite, user |-> "", name |-> ""]

\* variant: the host group of the bare shorthand is ignored
ParseRepo_mutantIgnoreHost(repo, defaultHubSite, defaultProtocol) ==
  LET s == sshMatch(repo)
      p == protocolMatch(repo)
      h == hostMatch(repo)
  IN  IF s.ok
      THEN [grammar |-> "ssh", protocol |-> "ssh", host |-> s.host,
            user |-> s.user, name |-> s.name]
      ELSE IF p.ok
      THEN [grammar |-> "protocol", protocol |-> p.protocol, host |-> p.host,
            user |-> p.user, name |-> p.name]
      ELSE IF h.ok
      THEN [grammar |-> "host", protocol |-> defaultProtocol,
            host |-> defaultHubSite,
            user |-> h.user, name |-> h.name]
      ELSE [grammar |-> "none", protocol |-> defaultProtocol,
            host |-> defaultHubSite, user |-> "", name |-> ""]

\* the if / else-if chain that picks the grammar and sets protocol, host,
\* user and name
ParseRepo(repo, defaultHubSite, defaultProtocol) ==
  LET s == sshMatch(repo)
      p == protocolMatch(repo)
      h == hostMatch(repo)
  IN  IF s.ok
      THEN [grammar |-> "ssh", protocol |-> "ssh", host |-> s.host,
            user |-> s.user, name |-> s.name]
      ELSE IF p.ok
      THEN [grammar |-> "protocol", protocol |-> p.protocol, host |-> p.host,
            user |-> p.user, name |-> p.name]
      ELSE IF h.ok
      THEN [grammar |-> "host", protocol |-> defaultProtocol,
            host |-> IF h.host # "" THEN h.host ELSE defaultHubSite,
            user |-> h.user, name |-> h.name]
      ELSE [grammar |-> "none", protocol |-> defaultProtocol,
            host |-> defaultHubSite, user |-> "", name |-> ""]

\* variant: the test is left out
InvalidComponents_mutantSkip(user, name) == FALSE

\* if (user === "" || name === "") return "";
InvalidComponents(user, name) == user = "" \/ name = ""

\* variant: the test is left out
InvalidProtocol_mutantSkip(protocol) == FALSE

\* if (protocol !== "https" && protocol !== "ssh") return "";
InvalidProtocol(protocol) == protocol # "https" /\ protocol # "ssh"

\* const url = (protocol === "ssh") ? `git@...` : `${protocol}://...`
BuildUrl(protocol, host, user, name) ==
  IF protocol = "ssh"
  THEN "git@" \o host \o ":" \o user \o "/" \o name
  ELSE protocol \o "://" \o host \o "/" \o user \o "/" \o name

\* variant: .git is appended whatever the host and the URL
SuffixPolicy_mutantAlways(host, url) == url \o ".git"

\* return host === "git.sr.ht" || url.endsWith(".git") ? url : url + ".git";
SuffixPolicy(host, url) ==
  IF host = "git.sr.ht" \/ EndsWith(url, ".git") THEN url ELSE url \o ".git"

\* getGitUrl(plugin, defaultHubSite, defaultProtocol); "" also stands for an
\* undefined plugin.repo
getGitUrl(plug, defaultHubSite, defaultProtocol) ==
  IF plug.repo = "" \/ ~Includes(plug.repo, "/") THEN ""
  ELSE LET l == ParseRepo(plug.repo, defaultHubSite, defaultProtocol)
       IN  IF InvalidComponents(l.user, l.name) THEN ""
           ELSE IF InvalidProtocol(l.protocol) THEN ""
           ELSE SuffixPolicy(l.host, BuildUrl(l.protocol, l.host, l.user, l.name))

\* the messages getGitUrl sends to dpp#util#_error: it is a plain function
\* that is handed no denops and both of its "Invalid" branches only return ""
getGitUrlErrors(plug, defaultHubSite, defaultProtocol) == <<>>

\* protocol, host, user and name as getGitUrl holds them when it returns
NoLocals == [grammar |-> "none", protocol |-> "", host |-> "", user |-> "", name |-> ""]

getGitUrlLocals(plug, defaultHubSite, defaultProtocol) ==
  IF plug.repo = "" \/ ~Includes(plug.repo, "/") THEN NoLocals
  ELSE ParseRepo(plug.repo, defaultHubSite, defaultProtocol)

(***************************************************************************)
(* detect                                                                  *)
(***************************************************************************)
\* /\/\/(raw|gist)\.githubusercontent\.com\/|\/archive\/[^\/]+.zip$/
\* (the dot before zip is unescaped: it stands for any character)
RECURSIVE ArchiveAt(_, _)
ArchiveAt(s, i) ==
  LET a == IndexFrom(s, "/archive/", i)
      rest == From(s, a + 9)
  IN  IF a = 0 THEN FALSE
      ELSE \/ /\ Len(rest) >= 5
              /\ EndsWith(rest, "zip")
              /\ ~Includes(SubSeq(rest, 1, Len(rest) - 4), "/")
           \/ ArchiveAt(s, a + 1)

RawRepository(repo) ==
  \/ Includes(repo, "//raw.githubusercontent.com/")
  \/ Includes(repo, "//gist.githubusercontent.com/")
  \/ ArchiveAt(repo, 1)

\* isAbsolute of @std/path on a POSIX host
isAbsolute(path) == StartsWith(path, "/")

\* the home directory dpp#util#_expand puts in the place of a leading "~"
Home == "/home/me"

\* denops.call("dpp#util#_expand", repo): "~" and "~/..." are expanded, a
\* "~name" that is no user of the machine is left as it is
expand(path) ==
  IF path = "~" \/ StartsWith(path, "~/") THEN Home \o From(path, 2) ELSE path

\* isDirectory of @shougo/dpp-vim/utils, on the disk state d
isDirectory(d, path) == path \in d

\* g:dpp#_base_path
BasePath == "/b"

\* url.replace(/\.git$/, "")
StripGit(s) == IF EndsWith(s, ".git") THEN SubSeq(s, 1, Len(s) - 4) ELSE s

\* s.replace(/https:\/+|^git@/g, "") from position i on
RECURSIVE RemoveSchemes(_, _)
RemoveSchemes(s, i) ==
  IF i > Len(s) THEN ""
  ELSE IF i + 6 <= Len(s) /\ SubSeq(s, i, i + 6) = "https:/"
       THEN RemoveSchemes(s, i + 6 + SlashRun(s, i + 6))
  ELSE IF i = 1 /\ StartsWith(s, "git@") THEN RemoveSchemes(s, 5)
  ELSE CharAt(s, i) \o RemoveSchemes(s, i + 1)

\* s.replace(/^https:\/+|^git@/, ""), the expression of git.ts
RemoveLeadingScheme(s) ==
  IF StartsWith(s, "https:/") THEN From(s, 7 + SlashRun(s, 7))
  ELSE IF StartsWith(s, "git@") THEN From(s, 5)
  ELSE s

\* s.replace(/:/, "/")
ReplaceFirstColon(s) ==
  LET i == IndexFrom(s, ":", 1)
  IN  IF i = 0 THEN s ELSE SubSeq(s, 1, i - 1) \o "/" \o From(s, i + 1)

\* variant: only a leading https:// is removed, as in git.ts
Directory_mutantLeadingOnly(url) ==
  ReplaceFirstColon(RemoveLeadingScheme(StripGit(url)))

\* const directory = url.replace(...).replace(...).replace(...)
Directory(url) == ReplaceFirstColon(RemoveSchemes(StripGit(url), 1))

\* /^git@github.com:/ and /^git@git.sr.ht:/ (unescaped dots stand for any
\* character)
GithubSshPrefix(s) ==
  Len(s) >= 15 /\ SubSeq(s, 1, 10) = "git@github" /\ SubSeq(s, 12, 15) = "com:"

SrhtSshPrefix(s) ==
  /\ Len(s) >= 14
  /\ SubSeq(s, 1, 7) = "git@git"
  /\ SubSeq(s, 9, 10) = "sr"
  /\ SubSeq(s, 12, 14) = "ht:"

\* const browseUrl = url.replace(...).replace(...).replace(/\.git$/, "")
BrowseUrl(url) ==
  LET a == IF GithubSshPrefix(url) THEN "https://github.com/" \o From(url, 16)
           ELSE url
      b == IF SrhtSshPrefix(a) THEN "https://git.sr.ht" \o From(a, 15) ELSE a
  IN  StripGit(b)

\* Partial<Plugin> | undefined: keys are the properties the update has
NoUpdate ==
  [defined |-> FALSE, keys |-> {}, local |-> FALSE, frozen |-> FALSE,
   path |-> "", url |-> ""]

LocalUpdate(path) ==
  [defined |-> TRUE, keys |-> {"local", "path"}, local |-> TRUE,
   frozen |-> FALSE, path |-> path, url |-> ""]

RemoteUpdate(path, url) ==
  [defined |-> TRUE, keys |-> {"path", "url"}, local |-> FALSE,
   frozen |-> FALSE, path |-> path, url |-> url]

\* getUrl(args)
getUrl(plug, par) == getGitUrl(plug, par.defaultHubSite, par.defaultProtocol)

\* detect(args) on the disk state d
detect(d, plug, par) ==
  IF plug.repo = "" THEN NoUpdate
  ELSE IF RawRepository(plug.repo) THEN NoUpdate
  ELSE IF (isAbsolute(plug.repo) \/ StartsWith(plug.repo, "~")) /\ plug.local
       THEN NoUpdate
  ELSE IF /\ isAbsolute(plug.repo) \/ StartsWith(plug.repo, "~")
          /\ isDirectory(d, expand(plug.repo))
       THEN LocalUpdate(expand(plug.repo))
  ELSE LET url == getUrl(plug, par)
       IN  IF Len(url) = 0 THEN NoUpdate
           ELSE RemoteUpdate(BasePath \o "/repos/" \o Directory(url),
                             BrowseUrl(url))

\* the paths detect asks isDirectory about
detectProbes(plug) ==
  IF /\ plug.repo # ""
     /\ ~RawRepository(plug.repo)
     /\ isAbsolute(plug.repo) \/ StartsWith(plug.repo, "~")
     /\ ~plug.local
  THEN {expand(plug.repo)} ELSE {}

\* whether detect gets as far as its call of getUrl
detectCallsGetUrl(d, plug) ==
  /\ plug.repo # ""
  /\ ~RawRepository(plug.repo)
  /\ ~(/\ isAbsolute(plug.repo) \/ StartsWith(plug.repo, "~")
       /\ plug.local \/ isDirectory(d, expand(plug.repo)))

(***************************************************************************)
(* The inputs of the calls.                                                *)
(***************************************************************************)
\* params()
DefaultParams ==
  [cloneDepth |-> 0, commandPath |-> "git", defaultBranch |-> "main",
   defaultHubSite |-> "github.com", defaultProtocol |-> "https",
   defaultRemote |-> "origin", enableCredentialHelper |-> FALSE,
   enablePartialClone |-> FALSE, enableSSLVerify |-> TRUE,
   pullArgs |-> <<"pull", "--ff", "--ff-only">>]

\* a Plugin with nothing set; gitRemote = <<>> stands for an undefined
\* protocolAttrs.gitRemote, <<r>> for the remote r, and gitDefaultBranch
\* likewise
EmptyPlugin ==
  [repo |-> "", path |-> "", rev |-> "", local |-> FALSE, gitRemote |-> <<>>,
   gitDefaultBranch |-> <<>>]

\* a call that has probed no path, spawned no subprocess, reported no error
NoEffects == [probes |-> {}, spawns |-> <<>>, errors |-> <<>>]

\* the { code, stdout, stderr } of a subprocess that printed nothing
NoOutput == [code |-> 0, stdout |-> "", stderr |-> ""]

\* a .git directory without HEAD, loose ref or packed-refs; <<>> stands for
\* a file that does not exist, <<text>> for a file with that text
NoFiles == [head |-> <<>>, loose |-> <<>>, packed |-> <<>>]

\* a call without rev, oldRev and newRev
NoCall == [rev |-> "", oldRev |-> "", newRev |-> ""]

\* the answers of a call that asked nothing
NoEnv == [mergeBase |-> NoOutput, tag |-> NoOutput, symref |-> NoOutput,
          files |-> NoFiles]

IdentifierAlphabet == {"a", "/", ":", "@"}

RECURSIVE StringsOfLen(_)
StringsOfLen(n) ==
  IF n = 0 THEN {""}
  ELSE {s \o c : s \in StringsOfLen(n - 1), c \in IdentifierAlphabet}

ShortRepos == UNION {StringsOfLen(n) : n \in 0..MaxLen}

Hosts == {"h", "git.sr.ht", "github.com", "h:8", ":x"}
Users == {"u", "~w"}
Names == {"n", "n.git", "s/n"}
Schemes == {"https", "ssh", "foo"}
Logins == {"git", "bob"}

Bare(h, u, n) == IF h = "" THEN u \o "/" \o n ELSE h \o "/" \o u \o "/" \o n
WithScheme(sc, h, u, n) == sc \o "://" \o h \o "/" \o u \o "/" \o n
SshShorthand(lg, h, u, n) == lg \o "@" \o h \o ":" \o u \o "/" \o n

BareRepos == {Bare(h, u, n) : h \in Hosts \cup {""}, u \in Users, n \in Names}
SchemeRepos ==
  {WithScheme(sc, h, u, n) : sc \in Schemes, h \in Hosts, u \in Users, n \in Names}
SshRepos ==
  {SshShorthand(lg, h, u, n) : lg \in Logins, h \in Hosts, u \in Users, n \in Names}

\* local paths, raw and archive URLs, a github acceleration URL
SpecialRepos ==
  {"/d", "/d/e", "/e", "~", "~/d", "~/e", "dpp.vim",
   "https://raw.githubusercontent.com/u/n/f.vim",
   "https://gist.githubusercontent.com/u/n/f.vim",
   "https://github.com/u/n/archive/v1.zip",
   "https://p.io/https://github.com/u/n"}

Repos == ShortRepos \cup BareRepos \cup SchemeRepos \cup SshRepos \cup SpecialRepos

HubSites == {"github.com", "git.sr.ht"}
Protocols == {"https", "ssh", "foo"}

\* the paths that may be directories when the calls are made
DirCandidates == {"/d", Home \o "/d"}

(***************************************************************************)
(* Spec: one call of getUrl or detect with any plugin and configuration,   *)
(* on any disk state; getUrl may then be called again on its own result.   *)
(***************************************************************************)
Init ==
  /\ plugin = EmptyPlugin
  /\ params = DefaultParams
  /\ dirs \in SUBSET DirCandidates
  /\ op = "none"
  /\ ret = ""
  /\ loc = NoLocals
  /\ fx = NoEffects
  /\ env = NoEnv
  /\ call = NoCall

GetUrl ==
  \E r \in Repos, hub \in HubSites, proto \in Protocols :
    /\ op = "none"
    /\ plugin' = [EmptyPlugin EXCEPT !.repo = r]
    /\ params' = [DefaultParams EXCEPT !.defaultHubSite = hub,
                                       !.defaultProtocol = proto]
    /\ op' = "getUrl"
    /\ ret' = getUrl(plugin', params')
    /\ loc' = getGitUrlLocals(plugin', hub, proto)
    /\ fx' = [NoEffects EXCEPT !.errors = getGitUrlErrors(plugin', hub, proto)]
    /\ UNCHANGED <<dirs, env, call>>

\* getUrl called on the URL it returned, under the same configuration
GetUrlAgain ==
  /\ op = "getUrl"
  /\ ret # ""
  /\ plugin' = [plugin EXCEPT !.repo = ret]
  /\ op' = "getUrlAgain"
  /\ ret' = getUrl(plugin', params)
  /\ loc' = getGitUrlLocals(plugin', params.defaultHubSite, params.defaultProtocol)
  /\ fx' = [NoEffects EXCEPT
             !.errors = getGitUrlErrors(plugin', params.defaultHubSite,
                                        params.defaultProtocol)]
  /\ UNCHANGED <<params, dirs, env, call>>

Detect ==
  \E r \in Repos, l \in BOOLEAN, hub \in HubSites, proto \in Protocols :
    /\ op = "none"
    /\ plugin' = [EmptyPlugin EXCEPT !.repo = r, !.local = l]
    /\ params' = [DefaultParams EXCEPT !.defaultHubSite = hub,
                                       !.defaultProtocol = proto]
    /\ op' = "detect"
    /\ ret' = detect(dirs, plugin', params')
    /\ loc' = IF detectCallsGetUrl(dirs, plugin')
              THEN getGitUrlLocals(plugin', hub, proto)
              ELSE NoLocals
    /\ fx' = [NoEffects EXCEPT
               !.probes = detectProbes(plugin'),
               !.errors = IF detectCallsGetUrl(dirs, plugin')
                          THEN getGitUrlErrors(plugin', hub, proto) ELSE <<>>]
    /\ UNCHANGED <<dirs, env, call>>

Next == GetUrl \/ GetUrlAgain \/ Detect

Spec == Init /\ [][Next]_vars

(***************************************************************************)
(* Claims about getGitUrl / getUrl.                                         *)
(***************************************************************************)
UrlReturned == op \in {"getUrl", "getUrlAgain"}

\* the host a bare shorthand resolves to
BareHost(h) == IF h = "" THEN params.defaultHubSite ELSE h

\* plugin.repo is the bare shorthand [h/]u/n
IsBare(h, u, n) == plugin.repo = Bare(h, u, n) /\ (h # "" \/ ~Includes(n, "/"))

\* the URL of protocol pr, before any suffix
UrlOf(pr, h, u, n) ==
  IF pr = "ssh" THEN "git@" \o h \o ":" \o u \o "/" \o n
  ELSE "https://" \o h \o "/" \o u \o "/" \o n

\* ".git" unless the host is git.sr.ht or the name already ends in .git
Suffix(h, n) == IF h = "git.sr.ht" \/ EndsWith(n, ".git") THEN "" ELSE ".git"

\* C1 as stated: a bare shorthand [host/]user/name resolves, under the
\* default protocol and the embedded or default host, to
\* https://<host>/<user>/<name>.git or git@<host>:<user>/<name>.git.
C1_BareShorthandAlwaysDotGit ==
  op = "getUrl" =>
    \A h \in Hosts \cup {""}, u \in Users, n \in Names :
      (IsBare(h, u, n) /\ params.defaultProtocol \in {"https", "ssh"}) =>
        ret = UrlOf(params.defaultProtocol, BareHost(h), u, n) \o ".git"

\* C1 amended: the same URL, with .git appended unless the host is
\* git.sr.ht or the name already ends in .git.
C1_BareShorthand ==
  op = "getUrl" =>
    \A h \in Hosts \cup {""}, u \in Users, n \in Names :
      (IsBare(h, u, n) /\ params.defaultProtocol \in {"https", "ssh"}) =>
        ret = UrlOf(params.defaultProtocol, BareHost(h), u, n)
                \o Suffix(BareHost(h), n)

C1_Witness ==
  /\ op = "getUrl"
  /\ plugin.repo = "h/u/n"
  /\ params.defaultProtocol = "ssh"
  /\ params.defaultHubSite = "github.com"
  /\ ret = "git@h:u/n.git"

\* hosts an SSH shorthand can name (its host ends at the first colon)
SshHosts == {h \in Hosts : ~Includes(h, ":")}

\* what scheme://h/u/n resolves to, whatever the configuration
SchemeResult(sc, h, u, n) ==
  IF sc \in {"https", "ssh"} THEN UrlOf(sc, h, u, n) \o Suffix(h, n) ELSE ""

\* C2 as stated: <login>@<host>:<user>/<name> resolves with protocol ssh and
\* the embedded host, <scheme>://<host>/<user>/<name> with protocol <scheme>
\* and the embedded host, whatever the default protocol and hub host.
C2_AnyLoginIsSsh ==
  op = "getUrl" =>
    /\ \A lg \in Logins, h \in SshHosts, u \in Users, n \in Names :
         plugin.repo = SshShorthand(lg, h, u, n) =>
           ret = UrlOf("ssh", h, u, n) \o Suffix(h, n)
    /\ \A sc \in Schemes, h \in Hosts, u \in Users, n \in Names :
         plugin.repo = WithScheme(sc, h, u, n) => ret = SchemeResult(sc, h, u, n)

\* C2 amended: the SSH shorthand is git@<host>:<user>/<name>, with the
\* login literally git; the rest as stated.
C2_GrammarPriority ==
  op = "getUrl" =>
    /\ \A h \in SshHosts, u \in Users, n \in Names :
         plugin.repo = SshShorthand("git", h, u, n) =>
           ret = UrlOf("ssh", h, u, n) \o Suffix(h, n)
    /\ \A sc \in Schemes, h \in Hosts, u \in Users, n \in Names :
         plugin.repo = WithScheme(sc, h, u, n) => ret = SchemeResult(sc, h, u, n)

C2_Witness ==
  /\ op = "getUrl"
  /\ plugin.repo = "git@h:u/n"
  /\ params.defaultProtocol = "https"
  /\ params.defaultHubSite = "git.sr.ht"
  /\ ret = "git@h:u/n.git"

\* no grammar matches plugin.repo, or the protocol it resolves to is neither
\* https nor ssh
Unresolvable ==
  LET r == plugin.repo
      pr == IF sshMatch(r).ok THEN "ssh"
            ELSE IF protocolMatch(r).ok THEN protocolMatch(r).protocol
            ELSE params.defaultProtocol
  IN  \/ ~sshMatch(r).ok /\ ~protocolMatch(r).ok /\ ~hostMatch(r).ok
      \/ pr \notin {"https", "ssh"}

\* plugin.repo names an existing local directory of a plugin not flagged local
LocalDirectory ==
  /\ isAbsolute(plugin.repo) \/ StartsWith(plugin.repo, "~")
  /\ expand(plugin.repo) \in dirs
  /\ ~plugin.local

C3_UrlPart ==
  UrlReturned =>
    /\ Unresolvable => ret = ""
    /\ ret # "" => StartsWith(ret, "https://") \/ StartsWith(ret, "git@")

\* C3 as stated: an unresolvable identifier gives the empty URL, no URL has
\* another protocol than https or ssh, and detect then returns no update.
C3_UnresolvableNeverUpdates ==
  /\ C3_UrlPart
  /\ (op = "detect" /\ Unresolvable) => ~ret.defined

\* C3 amended: detect returns no update for an unresolvable identifier
\* unless it names an existing local directory of a plugin not flagged local.
C3_Unresolvable ==
  /\ C3_UrlPart
  /\ (op = "detect" /\ Unresolvable /\ ~LocalDirectory) => ~ret.defined

C3_Witness ==
  /\ op = "detect"
  /\ plugin.repo = "foo://h/u/n"
  /\ Unresolvable
  /\ ~ret.defined

\* C4: .git is appended to the built URL exactly when the host is not
\* git.sr.ht and the URL does not end in .git already; a URL that ends in
\* .git comes back unchanged and no input form gets .git on git.sr.ht.
C4_SuffixPolicy ==
  (UrlReturned /\ ret # "") =>
    LET base == IF loc.protocol = "ssh"
                THEN "git@" \o loc.host \o ":" \o loc.user \o "/" \o loc.name
                ELSE loc.protocol \o "://" \o loc.host \o "/" \o loc.user
                       \o "/" \o loc.name
    IN  /\ ret = IF loc.host # "git.sr.ht" /\ ~EndsWith(base, ".git")
                 THEN base \o ".git" ELSE base
        /\ (EndsWith(plugin.repo, ".git") /\ loc.grammar = "ssh") =>
             ret = plugin.repo
        /\ (EndsWith(plugin.repo, ".git") /\ loc.grammar = "protocol"
              /\ loc.protocol = "https") => ret = plugin.repo
        /\ \A u \in Users, n \in Names :
             (/\ ~EndsWith(n, ".git")
              /\ plugin.repo \in {Bare("git.sr.ht", u, n),
                                  WithScheme("https", "git.sr.ht", u, n),
                                  WithScheme("ssh", "git.sr.ht", u, n),
                                  SshShorthand("git", "git.sr.ht", u, n)})
               => ~EndsWith(ret, ".git")

C4_Witness ==
  /\ op = "getUrl"
  /\ plugin.repo = "ssh://git.sr.ht/~w/n"
  /\ ret = "git@git.sr.ht:~w/n"

\* C5: getUrl applied to a URL it returned, under the same configuration,
\* returns that URL.
C5_Idempotent == op = "getUrlAgain" => ret = plugin.repo

\* C6 as stated: a URL is returned only if the parsed user and name are
\* both non-empty and neither contains a slash.
C6_NoSlashInUserOrName ==
  (UrlReturned /\ ret # "") =>
    /\ loc.user # "" /\ ~Includes(loc.user, "/")
    /\ loc.name # "" /\ ~Includes(loc.name, "/")

\* C6 amended: a URL is returned only if the parsed user is non-empty and
\* without a slash and the parsed name is non-empty (it may contain
\* slashes); an identifier that begins with a slash or has nothing after
\* its only slash is rejected.
C6_Components ==
  UrlReturned =>
    /\ ret # "" => /\ loc.user # "" /\ ~Includes(loc.user, "/")
                   /\ loc.name # ""
    /\ StartsWith(plugin.repo, "/") => ret = ""
    /\ (plugin.repo # "" /\ IndexFrom(plugin.repo, "/", 1) = Len(plugin.repo))
         => ret = ""

C6_Witness ==
  /\ op = "getUrl"
  /\ plugin.repo = "h/u/s/n"
  /\ loc.name = "s/n"
  /\ ret = "https://h/u/s/n.git"

(***************************************************************************)
(* Claims about detect.                                                    *)
(***************************************************************************)
\* C7: on an absolute or ~ path that is an existing directory, detect
\* returns nothing for a plugin flagged local and otherwise an update that
\* marks the plugin local and frozen, with the expanded path and no URL.
C7_LocalFrozen ==
  (/\ op = "detect"
   /\ isAbsolute(plugin.repo) \/ StartsWith(plugin.repo, "~")
   /\ expand(plugin.repo) \in dirs) =>
    IF plugin.local THEN ~ret.defined
    ELSE /\ ret.defined
         /\ ret.local
         /\ ret.frozen
         /\ ret.path = expand(plugin.repo)
         /\ "url" \notin ret.keys

\* the resolved URL with a trailing .git, then a leading https:// or git@
\* removed, and the first colon left replaced by a slash
C8_NormalizedLeading(url) ==
  LET a == IF EndsWith(url, ".git") THEN SubSeq(url, 1, Len(url) - 4) ELSE url
      b == IF StartsWith(a, "https://") THEN From(a, 9)
           ELSE IF StartsWith(a, "git@") THEN From(a, 5)
           ELSE a
      i == IndexFrom(b, ":", 1)
  IN  IF i = 0 THEN b ELSE SubSeq(b, 1, i - 1) \o "/" \o From(b, i + 1)

\* s without any "https:" that slashes follow, nor those slashes
RECURSIVE C8_WithoutHttps(_)
C8_WithoutHttps(s) ==
  LET i == IndexFrom(s, "https:/", 1)
  IN  IF i = 0 THEN s
      ELSE SubSeq(s, 1, i - 1)
             \o C8_WithoutHttps(From(s, i + 6 + SlashRun(s, i + 6)))

C8_NormalizedEverywhere(url) ==
  LET a == IF EndsWith(url, ".git") THEN SubSeq(url, 1, Len(url) - 4) ELSE url
      b == C8_WithoutHttps(IF StartsWith(a, "git@") THEN From(a, 5) ELSE a)
      i == IndexFrom(b, ":", 1)
  IN  IF i = 0 THEN b ELSE SubSeq(b, 1, i - 1) \o "/" \o From(b, i + 1)

RemoteDetected == op = "detect" /\ ret.defined /\ "local" \notin ret.keys

NameWithoutGit(n) == IF EndsWith(n, ".git") THEN SubSeq(n, 1, Len(n) - 4) ELSE n

\* C8 as stated: the path is <base>/repos/<normalized>, only a leading
\* https:// or git@ being removed, and the https and ssh forms of one
\* host/user/name map to <base>/repos/<host>/<user>/<name>.
C8_PathLeadingPrefixOnly ==
  RemoteDetected =>
    /\ ret.path = BasePath \o "/repos/" \o C8_NormalizedLeading(getUrl(plugin, params))
    /\ \A h \in Hosts, u \in Users, n \in Names :
         plugin.repo \in {WithScheme("https", h, u, n), WithScheme("ssh", h, u, n)}
           => ret.path = BasePath \o "/repos/" \o h \o "/" \o u \o "/"
                           \o NameWithoutGit(n)

\* C8 amended: every "https:" followed by slashes is removed, wherever it
\* is, besides a leading git@; the https, ssh and bare forms of one
\* host/user/name map to <base>/repos/<host>/<user>/<name> when the host
\* has no colon.
C8_Path ==
  RemoteDetected =>
    /\ ret.path = BasePath \o "/repos/"
                    \o C8_NormalizedEverywhere(getUrl(plugin, params))
    /\ \A h \in SshHosts, u \in Users, n \in Names :
         plugin.repo \in {WithScheme("https", h, u, n), WithScheme("ssh", h, u, n),
                          SshShorthand("git", h, u, n), Bare(h, u, n)}
           => ret.path = BasePath \o "/repos/" \o h \o "/" \o u \o "/"
                           \o NameWithoutGit(n)
    /\ plugin.repo = "https://p.io/https://github.com/u/n"
         => ret.path = "/b/repos/p.io/github.com/u/n"

C8_Witness ==
  /\ op = "detect"
  /\ plugin.repo = "https://p.io/https://github.com/u/n"
  /\ ret.defined
  /\ ret.path = "/b/repos/p.io/github.com/u/n"

(***************************************************************************)
(* getSyncCommands                                                         *)
(***************************************************************************)
\* const credentialHelper = enableCredentialHelper ? [] : [...]
credentialHelper(par) ==
  IF par.enableCredentialHelper THEN <<>>
  ELSE <<"-c", "credential.helper=", "-c", "core.fsmonitor=false">>

\* const sslVerify = enableSSLVerify ? [] : [...]
sslVerify(par) ==
  IF par.enableSSLVerify THEN <<>> ELSE <<"-c", "http.sslVerify=false">>

\* const initArgs = [...credentialHelper, ...sslVerify]
initArgs(par) == credentialHelper(par) \o sslVerify(par)

\* attrs?.gitRemote ?? args.protocolParams.defaultRemote
Remote(plug, par) ==
  IF plug.gitRemote = <<>> THEN par.defaultRemote ELSE plug.gitRemote[1]

\* variant: without the !depth test
SetHead_mutantNoTruthTest(depth) == depth <= 0

\* if (!depth && depth <= 0): the plan has the remote set-head command
SetHead(depth) == depth = 0 /\ depth <= 0

Cmd(par, args) == [command |-> par.commandPath, args |-> args]

\* the commands of the branch taken when plugin.path is a directory
UpdatePlan(plug, par) ==
  <<Cmd(par, initArgs(par) \o <<"fetch">>)>>
    \o (IF SetHead(par.cloneDepth)
        THEN <<Cmd(par, <<"remote", "set-head", Remote(plug, par), "-a">>)>>
        ELSE <<>>)
    \o <<Cmd(par, par.pullArgs),
         Cmd(par, <<"submodule", "update", "--init", "--recursive">>)>>

\* variant: --branch is pushed outside the depth test
ClonePlan_mutantBranchAlways(plug, par) ==
  LET depth == par.cloneDepth
  IN  <<Cmd(par,
          initArgs(par)
            \o <<"clone", "--recursive">>
            \o (IF par.enablePartialClone THEN <<"--filter=blob:none">> ELSE <<>>)
            \o (IF depth # 0 /\ depth > 0
                THEN <<"--depth=" \o ToString(depth)>> ELSE <<>>)
            \o (IF plug.rev # "" /\ Len(plug.rev) > 0
                THEN <<"--branch", plug.rev>> ELSE <<>>)
            \o <<getUrl(plug, par), plug.path>>)>>

\* the command of the branch taken when plugin.path is no directory
ClonePlan(plug, par) ==
  LET depth == par.cloneDepth
  IN  <<Cmd(par,
          initArgs(par)
            \o <<"clone", "--recursive">>
            \o (IF par.enablePartialClone THEN <<"--filter=blob:none">> ELSE <<>>)
            \o (IF depth # 0 /\ depth > 0
                THEN <<"--depth=" \o ToString(depth)>>
                       \o (IF plug.rev # "" /\ Len(plug.rev) > 0
                           THEN <<"--branch", plug.rev>> ELSE <<>>)
                ELSE <<>>)
            \o <<getUrl(plug, par), plug.path>>)>>

\* variant: the directory test is made on plugin.repo
getSyncCommands_mutantProbeRepo(d, plug, par) ==
  IF plug.repo = "" \/ plug.path = "" THEN <<>>
  ELSE IF isDirectory(d, plug.repo) THEN UpdatePlan(plug, par)
  ELSE ClonePlan(plug, par)

\* getSyncCommands(args) on the disk state d
getSyncCommands(d, plug, par) ==
  IF plug.repo = "" \/ plug.path = "" THEN <<>>
  ELSE IF isDirectory(d, plug.path) THEN UpdatePlan(plug, par)
  ELSE ClonePlan(plug, par)

\* the paths getSyncCommands asks isDirectory about
getSyncCommandsProbes(plug) ==
  IF plug.repo = "" \/ plug.path = "" THEN {} ELSE {plug.path}

(***************************************************************************)
(* SpecSync: getSyncCommands on any plugin and configuration; the          *)
(* installer runs a clone plan, which creates plugin.path when git         *)
(* succeeds, and asks for the plan of the same plugin again.               *)
(***************************************************************************)
SyncRepos == {"", "u/n", "dpp.vim"}
SyncPaths == {"", "/p", "/q"}
SyncRevs == {"", "v1"}
SyncRemotes == {<<>>, <<"upstream">>}
Depths == -1..MaxDepth
PullArgs == {<<"pull", "--ff", "--ff-only">>, <<"pull", "--rebase">>}

SyncPlugins ==
  {[EmptyPlugin EXCEPT !.repo = r, !.path = p, !.rev = v, !.gitRemote = g] :
     r \in SyncRepos, p \in SyncPaths, v \in SyncRevs, g \in SyncRemotes}

SyncParams ==
  {[DefaultParams EXCEPT !.cloneDepth = dp, !.enableCredentialHelper = c,
                         !.enablePartialClone = pc, !.enableSSLVerify = v,
                         !.pullArgs = pa] :
     dp \in Depths, c \in BOOLEAN, pc \in BOOLEAN, v \in BOOLEAN, pa \in PullArgs}

InitSync ==
  /\ plugin = EmptyPlugin
  /\ params = DefaultParams
  /\ dirs \in SUBSET {"/p"}
  /\ op = "none"
  /\ ret = <<>>
  /\ loc = NoLocals
  /\ fx = NoEffects
  /\ env = NoEnv
  /\ call = NoCall

IsClonePlan(plan) == Len(plan) = 1 /\ \E i \in DOMAIN plan[1].args : plan[1].args[i] = "clone"

GetSyncCommands ==
  \E plug \in SyncPlugins, par \in SyncParams :
    /\ op = "none"
    /\ plugin' = plug
    /\ params' = par
    /\ op' = "getSyncCommands"
    /\ ret' = getSyncCommands(dirs, plug, par)
    /\ fx' = [NoEffects EXCEPT !.probes = getSyncCommandsProbes(plug)]
    /\ UNCHANGED <<dirs, loc, env, call>>

\* the installer runs the clone command and git creates the directory
CloneSucceeds ==
  /\ op = "getSyncCommands"
  /\ IsClonePlan(ret)
  /\ dirs' = dirs \cup {plugin.path}
  /\ op' = "cloned"
  /\ UNCHANGED <<plugin, params, ret, loc, fx, env, call>>

\* the installer runs the clone command and git fails
CloneFails ==
  /\ op = "getSyncCommands"
  /\ IsClonePlan(ret)
  /\ op' = "cloneFailed"
  /\ UNCHANGED <<plugin, params, dirs, ret, loc, fx, env, call>>

\* the next call for the same plugin, under any configuration
GetSyncCommandsNext ==
  \E par \in SyncParams :
    /\ op \in {"cloned", "cloneFailed"}
    /\ params' = par
    /\ op' = "getSyncCommandsNext"
    /\ ret' = getSyncCommands(dirs, plugin, par)
    /\ fx' = [NoEffects EXCEPT !.probes = getSyncCommandsProbes(plugin)]
    /\ UNCHANGED <<plugin, dirs, loc, env, call>>

NextSync == GetSyncCommands \/ CloneSucceeds \/ CloneFails \/ GetSyncCommandsNext

SpecSync == InitSync /\ [][NextSync]_vars

(***************************************************************************)
(* Claims about getSyncCommands.                                           *)
(***************************************************************************)
SyncReturned ==
  /\ op \in {"getSyncCommands", "getSyncCommandsNext"}
  /\ plugin.repo # ""
  /\ plugin.path # ""

\* some command of the plan has an argument in the set words
PlanHas(plan, words) ==
  \E i \in DOMAIN plan : \E j \in DOMAIN plan[i].args : plan[i].args[j] \in words

PlanHasDepth(plan) ==
  \E i \in DOMAIN plan : \E j \in DOMAIN plan[i].args :
    StartsWith(plan[i].args[j], "--depth")

C9_KindByDirectory ==
  SyncReturned =>
    IF plugin.path \in dirs
    THEN /\ Len(ret) >= 3
         /\ ~PlanHas(ret, {"clone"})
         /\ ~PlanHasDepth(ret)
    ELSE /\ Len(ret) = 1
         /\ PlanHas(ret, {"clone"})
         /\ ~PlanHas(ret, {"fetch", "pull", "set-head", "submodule"})

\* C9: with repo and path given, the plan is a single clone command, with
\* no fetch, pull, set-head or submodule, when plugin.path is no directory,
\* and has no clone and no --depth when it is one; so the call that
\* follows a clone that created the directory returns an update plan.
C9_PlanKind ==
  /\ []C9_KindByDirectory
  /\ [][(op = "cloned" /\ op' = "getSyncCommandsNext")
          => (Len(ret') >= 3 /\ ~PlanHas(ret', {"clone"})
                /\ PlanHas(ret', {"fetch"}))]_vars

C9_Witness ==
  /\ op = "getSyncCommandsNext"
  /\ plugin.path = "/q"
  /\ "/q" \in dirs
  /\ PlanHas(ret, {"fetch"})
  /\ ~PlanHas(ret, {"clone"})

\* C10: when plugin.path is a directory the plan is fetch, remote set-head
\* <remote> -a, the pullArgs as configured, submodule update --init
\* --recursive, in this order; set-head is there exactly when cloneDepth is
\* 0, and <remote> is the plugin's gitRemote when set, else defaultRemote.
C10_UpdateOrder ==
  (SyncReturned /\ plugin.path \in dirs) =>
    LET remote == IF plugin.gitRemote # <<>> THEN plugin.gitRemote[1]
                  ELSE params.defaultRemote
        rest == IF params.cloneDepth = 0 THEN Tail(Tail(ret)) ELSE Tail(ret)
        fetch == ret[1].args
    IN  /\ Len(ret) = IF params.cloneDepth = 0 THEN 4 ELSE 3
        /\ fetch[Len(fetch)] = "fetch"
        /\ ~PlanHas(Tail(ret), {"fetch"})
        /\ params.cloneDepth = 0 =>
             ret[2].args = <<"remote", "set-head", remote, "-a">>
        /\ params.cloneDepth # 0 => ~PlanHas(ret, {"set-head"})
        /\ rest[1].args = params.pullArgs
        /\ rest[2].args = <<"submodule", "update", "--init", "--recursive">>
        /\ \A i \in DOMAIN ret : ret[i].command = params.commandPath

C10_Witness ==
  /\ op = "getSyncCommands"
  /\ plugin.path = "/p"
  /\ "/p" \in dirs
  /\ plugin.repo = "u/n"
  /\ plugin.gitRemote = <<"upstream">>
  /\ params.cloneDepth = 0
  /\ Len(ret) = 4
  /\ ret[2].args = <<"remote", "set-head", "upstream", "-a">>

(***************************************************************************)
(* C11: the argument order of the clone command.                           *)
(***************************************************************************)
\* the flags the claim puts in front of the git subcommand
FlagPrefix ==
  (IF ~params.enableCredentialHelper
   THEN <<"-c", "credential.helper=", "-c", "core.fsmonitor=false">> ELSE <<>>)
    \o (IF ~params.enableSSLVerify THEN <<"-c", "http.sslVerify=false">> ELSE <<>>)

\* the arguments the claim lists for the clone command, in its order
ExpectedCloneArgs ==
  FlagPrefix
    \o <<"clone", "--recursive">>
    \o (IF params.enablePartialClone THEN <<"--filter=blob:none">> ELSE <<>>)
    \o (IF params.cloneDepth > 0
        THEN <<"--depth=" \o ToString(params.cloneDepth)>> ELSE <<>>)
    \o (IF params.cloneDepth > 0 /\ plugin.rev # ""
        THEN <<"--branch", plugin.rev>> ELSE <<>>)
    \o <<getUrl(plugin, params), plugin.path>>

\* C11: when plugin.path is not a directory, getSyncCommands returns exactly
\* one command whose arguments are, in order, the credential flags iff
\* enableCredentialHelper is false, the TLS flag iff enableSSLVerify is false,
\* clone --recursive, --filter=blob:none iff enablePartialClone, --depth=N
\* iff cloneDepth N > 0, --branch rev iff cloneDepth > 0 and a revision was
\* requested, the resolved URL and the destination path; the fetch command of
\* the update plan carries the same flag prefix.
C11_CloneArguments ==
  SyncReturned =>
    /\ ~isDirectory(dirs, plugin.path) =>
         /\ Len(ret) = 1
         /\ ret[1].command = params.commandPath
         /\ ret[1].args = ExpectedCloneArgs
    /\ isDirectory(dirs, plugin.path) =>
         /\ Len(ret) >= 1
         /\ ret[1].args = FlagPrefix \o <<"fetch">>

C11_Witness ==
  /\ op = "getSyncCommands"
  /\ plugin.repo = "u/n"
  /\ plugin.path = "/q"
  /\ ~isDirectory(dirs, plugin.path)
  /\ plugin.rev = "v1"
  /\ params.cloneDepth = 1
  /\ params.enablePartialClone
  /\ ~params.enableSSLVerify
  /\ ret = <<[command |-> "git",
              args |-> <<"-c", "credential.helper=", "-c", "core.fsmonitor=false",
                         "-c", "http.sslVerify=false", "clone", "--recursive",
                         "--filter=blob:none", "--depth=1", "--branch", "v1",
                         "https://github.com/u/n.git", "/q">>]>>

(***************************************************************************)
(* C20: the source of a clone command.                                     *)
(***************************************************************************)
\* the argument before the destination path of a clone command
CloneSource(plan) == plan[1].args[Len(plan[1].args) - 1]

\* C20: whenever getSyncCommands emits a clone command, its source-URL
\* argument is a non-empty resolved URL; for an identifier getUrl cannot
\* resolve and a path that is not a directory, no clone command with an
\* empty source is planned.
C20_CloneSourceNonEmpty ==
  (op \in {"getSyncCommands", "getSyncCommandsNext"} /\ IsClonePlan(ret))
    => CloneSource(ret) # ""

(***************************************************************************)
(* C18: the report of an invalid protocol.                                 *)
(***************************************************************************)
\* getGitUrl has reached its protocol test with an explicit scheme that is
\* neither https nor ssh
InvalidExplicitScheme ==
  /\ loc.grammar = "protocol"
  /\ loc.user # "" /\ loc.name # ""
  /\ loc.protocol \notin {"https", "ssh"}

\* C18: when the protocol of an identifier is an explicit scheme other than
\* https or ssh, URL resolution returns the empty result and reports the
\* invalid protocol through dpp#util#_error exactly once per call.
C18_InvalidProtocolReported ==
  (op \in {"getUrl", "getUrlAgain"} /\ InvalidExplicitScheme)
    => /\ ret = ""
       /\ Len(fx.errors) = 1

(***************************************************************************)
(* C19: the browse URL of detect.                                          *)
(***************************************************************************)
\* the web address of the repository getGitUrl has parsed
WebAddress ==
  "https://" \o loc.host \o "/" \o loc.user \o "/" \o NameWithoutGit(loc.name)

\* C19: for a URL resolved in ssh form on github.com or git.sr.ht the browse
\* URL of detect is https://<host>/<user>/<name> without .git; for a URL
\* resolved in https form it is that URL without .git; the path of detect is
\* derived from the resolved URL, not from the browse URL.
C19_BrowseUrl ==
  RemoteDetected =>
    /\ (loc.protocol = "ssh" /\ loc.host \in {"github.com", "git.sr.ht"})
         => ret.url = WebAddress
    /\ loc.protocol = "https" => ret.url = StripGit(getUrl(plugin, params))
    /\ ret.path = BasePath \o "/repos/" \o Directory(getUrl(plugin, params))

(***************************************************************************)
(* getRollbackCommands, getDiffCommands, getLogCommands,                   *)
(* getRevisionLockCommands, getChangesCountCommands                        *)
(***************************************************************************)
\* if (!args.plugin.repo || !args.plugin.path) return [];
Inapplicable(plug) == plug.repo = "" \/ plug.path = ""

\* variant: the plan is empty only when both are missing
getRollbackCommands_mutantBothMissing(plug, par, rev) ==
  IF plug.repo = "" /\ plug.path = "" THEN <<>>
  ELSE <<Cmd(par, <<"reset", "--hard", rev>>)>>

\* getRollbackCommands(args)
getRollbackCommands(plug, par, rev) ==
  IF Inapplicable(plug) THEN <<>>
  ELSE <<Cmd(par, <<"reset", "--hard", rev>>)>>

\* getDiffCommands(args)
getDiffCommands(plug, par, oldRev, newRev) ==
  IF Inapplicable(plug) THEN <<>>
  ELSE <<Cmd(par, <<"diff", oldRev \o ".." \o newRev, "--", "doc", "README",
                    "README.md">>)>>

\* getChangesCountCommands(args)
getChangesCountCommands(plug, par, oldRev, newRev) ==
  IF Inapplicable(plug) THEN <<>>
  ELSE <<Cmd(par, <<"rev-list", "--count", oldRev \o ".." \o newRev>>)>>

\* the guard of getLogCommands
LogInapplicable(plug, oldRev, newRev) ==
  Inapplicable(plug) \/ Len(newRev) = 0 \/ Len(oldRev) = 0

\* const isNotAncestor = new TextDecoder().decode(stdout) === args.oldRev;
isNotAncestor(out, oldRev) == out.stdout = oldRev

\* getLogCommands(args), out being the output of the merge-base subprocess
getLogCommands(plug, par, oldRev, newRev, out) ==
  IF LogInapplicable(plug, oldRev, newRev) THEN <<>>
  ELSE <<Cmd(par, <<"log",
                    oldRev \o (IF isNotAncestor(out, oldRev) THEN "" ELSE "^")
                           \o ".." \o newRev,
                    "--graph", "--no-show-signature",
                    "--pretty=format:\"%h [%cr] %s\"">>)>>

\* the isDirectory probe and the subprocess of getLogCommands
getLogCommandsEffects(plug, oldRev, newRev) ==
  IF LogInapplicable(plug, oldRev, newRev) THEN NoEffects
  ELSE [NoEffects EXCEPT !.probes = {plug.path},
                         !.spawns = <<<<"merge-base", oldRev, newRev>>>>]

\* new TextDecoder().decode(stdout).split("\n")[0]; split gives at least one
\* element, so lines.length > 0 holds
FirstLine(text) ==
  LET i == IndexFrom(text, "\n", 1)
  IN  IF i = 0 THEN text ELSE SubSeq(text, 1, i - 1)

\* rev && rev.match(/\*/)
Wildcard(rev) == rev # "" /\ Includes(rev, "*")

\* variant: the pattern is kept when the listing is empty
RevAfterTag_mutantKeepPattern(plug, tagOut) ==
  IF Wildcard(plug.rev) /\ tagOut.stdout # "" THEN FirstLine(tagOut.stdout)
  ELSE plug.rev

\* rev after the first if of getRevisionLockCommands
RevAfterTag(plug, tagOut) ==
  IF Wildcard(plug.rev) THEN FirstLine(tagOut.stdout) ELSE plug.rev

\* attrs?.gitDefaultBranch ?? args.protocolParams.defaultBranch
DefaultBranch(plug, par) ==
  IF plug.gitDefaultBranch = <<>> THEN par.defaultBranch
  ELSE plug.gitDefaultBranch[1]

\* rev after the second if of getRevisionLockCommands
RevAfterSymbolicRef(plug, par, tagOut, symOut) ==
  LET rev == RevAfterTag(plug, tagOut)
      head == FirstLine(symOut.stdout)
  IN  IF Len(rev) = 0
      THEN IF Includes(head, "fatal: ") THEN DefaultBranch(plug, par) ELSE head
      ELSE rev

\* getRevisionLockCommands(args), tagOut and symOut being the outputs of the
\* tag and symbolic-ref subprocesses
getRevisionLockCommands(plug, par, tagOut, symOut) ==
  IF Inapplicable(plug) THEN <<>>
  ELSE <<Cmd(par, <<"checkout", "--quiet", "--guess",
                    RevAfterSymbolicRef(plug, par, tagOut, symOut), "--">>)>>

\* the isDirectory probes and the subprocesses of getRevisionLockCommands
getRevisionLockCommandsEffects(plug, tagOut) ==
  LET tag == IF Wildcard(plug.rev)
             THEN <<<<"tag", plug.rev, "--list", "--sort", "-version:refname">>>>
             ELSE <<>>
      sym == IF Len(RevAfterTag(plug, tagOut)) = 0
             THEN <<<<"symbolic-ref", "--short", "HEAD">>>>
             ELSE <<>>
  IN  IF Inapplicable(plug) THEN NoEffects
      ELSE [NoEffects EXCEPT
              !.probes = IF tag \o sym = <<>> THEN {} ELSE {plug.path},
              !.spawns = tag \o sym]

(***************************************************************************)
(* SpecPlan: one call of a Command Planner operation on any plugin, with   *)
(* any answer of the subprocesses it spawns.                               *)
(***************************************************************************)
PlanRepos == {"", "u/n"}
PlanPaths == {"", "/p"}
Revs == {"", "a1", "b2"}
LockRevs == {"", "v1", "v*"}
DefaultBranches == {<<>>, <<"dev">>}

PlanPlugins ==
  {[EmptyPlugin EXCEPT !.repo = r, !.path = p, !.rev = v,
                       !.gitDefaultBranch = b] :
     r \in PlanRepos, p \in PlanPaths, v \in LockRevs, b \in DefaultBranches}

PlanParams == {[DefaultParams EXCEPT !.defaultBranch = b] : b \in {"main", "trunk"}}

Output(code, stdout, stderr) == [code |-> code, stdout |-> stdout, stderr |-> stderr]

\* git merge-base prints the hash of the best common ancestor and a newline;
\* it prints nothing and exits 1 when there is none and fails on an unknown
\* revision; commandPath may name another executable, one that prints the
\* hash without a newline
MergeBaseOutputs ==
  {Output(0, r \o "\n", "") : r \in {"a1", "b2", "c3"}}
    \cup {Output(0, "a1", ""), Output(1, "", ""),
          Output(128, "", "fatal: Not a valid object name\n")}

\* git tag <pattern> --list --sort -version:refname prints the matching tags
\* one per line, the highest version first, and nothing when none matches
TagOutputs ==
  {Output(0, "v2\nv1\n", ""), Output(0, "v1\n", ""), Output(0, "", ""),
   Output(128, "", "fatal: not a git repository\n")}

\* git symbolic-ref --short HEAD prints the branch; on a detached HEAD it
\* prints the fatal message on stderr and nothing on stdout; commandPath may
\* name an executable that sends the message to stdout
SymbolicRefOutputs ==
  {Output(0, "main\n", ""),
   Output(128, "", "fatal: ref HEAD is not a symbolic ref\n"),
   Output(128, "fatal: ref HEAD is not a symbolic ref\n", "")}

GetRollbackCommands ==
  \E plug \in PlanPlugins, par \in PlanParams, rev \in Revs :
    /\ op = "none"
    /\ plugin' = plug
    /\ params' = par
    /\ call' = [NoCall EXCEPT !.rev = rev]
    /\ op' = "getRollbackCommands"
    /\ ret' = getRollbackCommands(plug, par, rev)
    /\ fx' = NoEffects
    /\ UNCHANGED <<dirs, loc, env>>

GetDiffCommands ==
  \E plug \in PlanPlugins, par \in PlanParams, o \in Revs, n \in Revs :
    /\ op = "none"
    /\ plugin' = plug
    /\ params' = par
    /\ call' = [NoCall EXCEPT !.oldRev = o, !.newRev = n]
    /\ op' = "getDiffCommands"
    /\ ret' = getDiffCommands(plug, par, o, n)
    /\ fx' = NoEffects
    /\ UNCHANGED <<dirs, loc, env>>

GetChangesCountCommands ==
  \E plug \in PlanPlugins, par \in PlanParams, o \in Revs, n \in Revs :
    /\ op = "none"
    /\ plugin' = plug
    /\ params' = par
    /\ call' = [NoCall EXCEPT !.oldRev = o, !.newRev = n]
    /\ op' = "getChangesCountCommands"
    /\ ret' = getChangesCountCommands(plug, par, o, n)
    /\ fx' = NoEffects
    /\ UNCHANGED <<dirs, loc, env>>

GetLogCommands ==
  \E plug \in PlanPlugins, par \in PlanParams, o \in Revs, n \in Revs,
     out \in MergeBaseOutputs :
    /\ op = "none"
    /\ plugin' = plug
    /\ params' = par
    /\ call' = [NoCall EXCEPT !.oldRev = o, !.newRev = n]
    /\ env' = [NoEnv EXCEPT !.mergeBase = out]
    /\ op' = "getLogCommands"
    /\ ret' = getLogCommands(plug, par, o, n, out)
    /\ fx' = getLogCommandsEffects(plug, o, n)
    /\ UNCHANGED <<dirs, loc>>

GetRevisionLockCommands ==
  \E plug \in PlanPlugins, par \in PlanParams, tagOut \in TagOutputs,
     symOut \in SymbolicRefOutputs :
    /\ op = "none"
    /\ plugin' = plug
    /\ params' = par
    /\ env' = [NoEnv EXCEPT !.tag = tagOut, !.symref = symOut]
    /\ op' = "getRevisionLockCommands"
    /\ ret' = getRevisionLockCommands(plug, par, tagOut, symOut)
    /\ fx' = getRevisionLockCommandsEffects(plug, tagOut)
    /\ UNCHANGED <<dirs, loc, call>>

NextPlan ==
  \/ GetSyncCommands
  \/ GetRollbackCommands
  \/ GetDiffCommands
  \/ GetLogCommands
  \/ GetChangesCountCommands
  \/ GetRevisionLockCommands

SpecPlan == InitSync /\ [][NextPlan]_vars

(***************************************************************************)
(* C12: the inapplicable operation.                                        *)
(***************************************************************************)
PlannerOps ==
  {"getSyncCommands", "getRollbackCommands", "getDiffCommands",
   "getLogCommands", "getChangesCountCommands", "getRevisionLockCommands"}

\* C12: every Command Planner operation returns an empty plan, without
\* probing the filesystem and without spawning a subprocess, when the
\* plugin's repository identifier or its path is missing or empty.
C12_InapplicableIsEmpty ==
  (op \in PlannerOps /\ (plugin.repo = "" \/ plugin.path = ""))
    => /\ ret = <<>>
       /\ fx.probes = {}
       /\ fx.spawns = <<>>
       /\ fx.errors = <<>>

C12_Witness ==
  /\ op = "getRollbackCommands"
  /\ plugin.repo = "u/n"
  /\ plugin.path = ""
  /\ call.rev = "a1"
  /\ ret = <<>>
  /\ fx = NoEffects

(***************************************************************************)
(* C13: the range of the log command.                                      *)
(***************************************************************************)
LogReturned ==
  /\ op = "getLogCommands"
  /\ plugin.repo # "" /\ plugin.path # ""
  /\ call.oldRev # "" /\ call.newRev # ""

\* the merge-base subprocess has reported old as the merge base
MergeBaseIsOld ==
  /\ env.mergeBase.code = 0
  /\ FirstLine(env.mergeBase.stdout) = call.oldRev

\* C13: getLogCommands with repo, path, oldRev and newRev emits the single
\* command log <range> --graph --no-show-signature --pretty=format:"%h [%cr]
\* %s" where <range> is old..new exactly when the merge base reported by the
\* subprocess is old, and old^..new in every other case.
C13_LogRange ==
  LogReturned =>
    ret = <<[command |-> params.commandPath,
             args |-> <<"log",
                        IF MergeBaseIsOld
                        THEN call.oldRev \o ".." \o call.newRev
                        ELSE call.oldRev \o "^.." \o call.newRev,
                        "--graph", "--no-show-signature",
                        "--pretty=format:\"%h [%cr] %s\"">>]>>

(***************************************************************************)
(* C14, C15: the target of the checkout command.                           *)
(***************************************************************************)
LockReturned ==
  /\ op = "getRevisionLockCommands"
  /\ plugin.repo # "" /\ plugin.path # ""

\* the plan is the single command checkout --quiet --guess <target> --
IsCheckout(plan, target) ==
  plan = <<[command |-> params.commandPath,
            args |-> <<"checkout", "--quiet", "--guess", target, "--">>]>>

CheckoutTarget == ret[1].args[4]

\* C14 as stated: a revision with * is always resolved to the first line of
\* the tag listing, which is a tag, and the checkout targets it; the pattern
\* and a branch name are never the target.
C14_AlwaysATag ==
  (LockReturned /\ Includes(plugin.rev, "*"))
    => /\ IsCheckout(ret, FirstLine(env.tag.stdout))
       /\ CheckoutTarget \in {"v1", "v2"}

\* C14 amended: a revision with * is resolved to the first line of the tag
\* listing and the checkout targets it when the listing is not empty; when it
\* is empty the revision is resolved as if none had been requested; the
\* pattern is never the target.
C14_TagWhenListed ==
  (LockReturned /\ Includes(plugin.rev, "*"))
    => /\ env.tag.stdout # "" =>
            /\ IsCheckout(ret, FirstLine(env.tag.stdout))
            /\ CheckoutTarget \in {"v1", "v2"}
            /\ fx.spawns = <<<<"tag", plugin.rev, "--list", "--sort",
                               "-version:refname">>>>
       /\ env.tag.stdout = "" =>
            /\ ret = getRevisionLockCommands([plugin EXCEPT !.rev = ""], params,
                                             env.tag, env.symref)
            /\ Len(fx.spawns) = 2
            /\ fx.spawns[2] = <<"symbolic-ref", "--short", "HEAD">>
       /\ CheckoutTarget # plugin.rev

C14_Witness ==
  /\ LockReturned
  /\ plugin.rev = "v*"
  /\ env.tag.stdout = ""
  /\ env.symref.stdout = "main\n"
  /\ IsCheckout(ret, "main")

\* the branch the claim falls back to
FallbackBranch ==
  IF plugin.gitDefaultBranch # <<>> THEN plugin.gitDefaultBranch[1]
  ELSE params.defaultBranch

\* C15: getRevisionLockCommands with no requested revision queries
\* symbolic-ref --short HEAD; when the query succeeds the checkout target is
\* the branch it printed; when it fails the target is gitDefaultBranch if
\* set, otherwise defaultBranch; the plan is the single command checkout
\* --quiet --guess <target> --.
C15_BranchOrFallback ==
  (LockReturned /\ plugin.rev = "")
    => /\ fx.spawns = <<<<"symbolic-ref", "--short", "HEAD">>>>
       /\ env.symref.code = 0 => IsCheckout(ret, FirstLine(env.symref.stdout))
       /\ env.symref.code # 0 => IsCheckout(ret, FallbackBranch)

(***************************************************************************)
(* getRevision                                                             *)
(***************************************************************************)
\* text.split("\n")
RECURSIVE Split(_)
Split(text) ==
  LET i == IndexFrom(text, "\n", 1)
  IN  IF i = 0 THEN <<text>>
      ELSE <<SubSeq(text, 1, i - 1)>> \o Split(From(text, i + 1))

HexDigits ==
  {"0", "1", "2", "3", "4", "5", "6", "7", "8", "9", "a", "b", "c", "d", "e", "f"}

\* the length of the longest prefix of s from position i made of [0-9a-f]
RECURSIVE HexRun(_, _)
HexRun(s, i) ==
  IF i <= Len(s) /\ CharAt(s, i) \in HexDigits THEN 1 + HexRun(s, i + 1) ELSE 0

\* line.replace(/^([0-9a-f]*) /, "$1"): the blank after the leading hash is
\* removed and the rest of the line is kept
RemoveBlankAfterHash(line) ==
  LET n == HexRun(line, 1)
  IN  IF n < Len(line) /\ CharAt(line, n + 1) = " "
      THEN SubSeq(line, 1, n) \o From(line, n + 2)
      ELSE line

\* .filter((line) => line.includes(` ${ref}`))
PackedLines(text, ref) ==
  SelectSeq(Split(text), LAMBDA line : Includes(line, " " \o ref))

\* the one ref of the inputs that can have a file of its own in the .git
\* directory
LooseRef == "refs/heads/main"

\* safeStat(`${gitDir}/${ref}`)
safeStat(files, ref) == ref = LooseRef /\ files.loose # <<>>

\* getGitDir(base)
getGitDir(d, base) ==
  IF isDirectory(d, base \o "/.git") THEN base \o "/.git" ELSE ""

Returned(value) == [threw |-> FALSE, value |-> value]

\* Deno.readTextFile of a file that does not exist rejects with NotFound
Thrown == [threw |-> TRUE, value |-> ""]

\* getRevision(args) on the disk state d and the files of the .git directory
getRevision(d, plug, files) ==
  IF plug.repo = "" \/ plug.path = "" THEN Returned("")
  ELSE IF Len(getGitDir(d, plug.path)) = 0 THEN Returned("")
  ELSE IF files.head = <<>> THEN Thrown
  ELSE LET headFileLine == FirstLine(files.head[1])
           ref == From(headFileLine, 6)
       IN  IF StartsWith(headFileLine, "ref: ")
           THEN IF safeStat(files, ref)
                THEN Returned(FirstLine(files.loose[1]))
                ELSE IF files.packed = <<>> THEN Thrown
                ELSE IF PackedLines(files.packed[1], ref) # <<>>
                THEN Returned(RemoveBlankAfterHash(
                                Head(PackedLines(files.packed[1], ref))))
                ELSE Returned(headFileLine)
           ELSE Returned(headFileLine)

\* the path getRevision asks isDirectory about
getRevisionProbes(plug) ==
  IF plug.repo = "" \/ plug.path = "" THEN {} ELSE {plug.path \o "/.git"}

(***************************************************************************)
(* SpecRev: one call of getRevision on any plugin and any content of its   *)
(* .git directory.                                                         *)
(***************************************************************************)
HeadFiles == {<<>>, <<"">>, <<"a1b2\n">>, <<"ref: refs/heads/main\n">>}
LooseFiles == {<<>>, <<"c3d4\n">>}
PackedFiles ==
  {<<>>, <<"">>,
   <<"# pack-refs with: peeled\ne5f6 refs/heads/main\n">>,
   <<"0a0a refs/heads/main2\ne5f6 refs/heads/main\n">>,
   <<"0a0a refs/heads/main2\n">>,
   <<"e5f6 refs/heads/dev\n">>}

GitFiles ==
  {[head |-> h, loose |-> l, packed |-> p] :
     h \in HeadFiles, l \in LooseFiles, p \in PackedFiles}

InitRev ==
  /\ plugin = EmptyPlugin
  /\ params = DefaultParams
  /\ dirs \in SUBSET {"/p/.git"}
  /\ op = "none"
  /\ ret = Returned("")
  /\ loc = NoLocals
  /\ fx = NoEffects
  /\ env = NoEnv
  /\ call = NoCall

\* the files are those of the .git directory: without it there are none
GetRevision ==
  \E plug \in PlanPlugins, files \in GitFiles :
    /\ op = "none"
    /\ dirs = {} => files = NoFiles
    /\ plugin' = plug
    /\ env' = [NoEnv EXCEPT !.files = files]
    /\ op' = "getRevision"
    /\ ret' = getRevision(dirs, plug, files)
    /\ fx' = [NoEffects EXCEPT !.probes = getRevisionProbes(plug)]
    /\ UNCHANGED <<params, dirs, loc, call>>

NextRev == GetRevision

SpecRev == InitRev /\ [][NextRev]_vars

(***************************************************************************)
(* C16, C17: the revision read from the .git directory.                    *)
(***************************************************************************)
\* getRevision was called for a plugin whose .git directory exists
RevisionRead ==
  /\ op = "getRevision"
  /\ plugin.repo # "" /\ plugin.path # ""
  /\ (plugin.path \o "/.git") \in dirs

HeadLine == IF env.files.head = <<>> THEN "" ELSE FirstLine(env.files.head[1])

Symbolic == StartsWith(HeadLine, "ref: ")

HeadRef == From(HeadLine, 6)

LooseExists == HeadRef = "refs/heads/main" /\ env.files.loose # <<>>

\* the hashes h such that packed-refs has the line "h <ref>"
PackedHashes(ref) ==
  IF env.files.packed = <<>> THEN {}
  ELSE {SubSeq(l, 1, HexRun(l, 1)) :
          l \in {Split(env.files.packed[1])[i] :
                   i \in DOMAIN Split(env.files.packed[1])}
                  \cap {h \o " " \o ref : h \in {"0a0a", "e5f6"}}}

\* C16: if the first line of HEAD is not "ref: <path>" getRevision returns
\* that line; if it is and the file <gitdir>/<path> exists it returns that
\* file's first line; otherwise it returns exactly the leading hash of the
\* packed-refs line whose ref name equals <path>.
C16_RevisionFromMetadata ==
  (RevisionRead /\ env.files.head # <<>>)
    => /\ ~Symbolic => ret = Returned(HeadLine)
       /\ (Symbolic /\ LooseExists) => ret = Returned(FirstLine(env.files.loose[1]))
       /\ (Symbolic /\ ~LooseExists /\ PackedHashes(HeadRef) # {})
            => /\ ~ret.threw
               /\ ret.value \in PackedHashes(HeadRef)

\* the revision cannot be determined from the metadata
Undeterminable ==
  \/ (plugin.path \o "/.git") \notin dirs
  \/ env.files.head = <<>>
  \/ HeadLine = ""
  \/ Symbolic /\ ~LooseExists /\ PackedHashes(HeadRef) = {}

\* C17: getRevision never raises a fault and returns the empty string
\* whenever the revision cannot be determined: the .git directory is absent,
\* HEAD is missing or empty, or HEAD is symbolic and the ref is found neither
\* as a loose ref file nor in packed-refs.
C17_NoFault ==
  (op = "getRevision" /\ plugin.repo # "" /\ plugin.path # "")
    => /\ ~ret.threw
       /\ Undeterminable => ret.value = ""

====
